---- MODULE Spec2Model ----
(***************************************************************************)
(* Model of DBPool (src/pooling.py): a pool of database connections with  *)
(* a live counter, a TTL test on release, and two scoped accessors,       *)
(* manager() and transaction().  Each caller thread is a small program    *)
(* counter machine whose steps are the statements of the source; the      *)
(* read-modify-write of connection_pointer is two steps (load, store).    *)
(***************************************************************************)
EXTENDS Integers, Sequences, FiniteSets, TLC

\* ---- bounds of the model ------------------------------------------------
MaxPoolSize == 2     \* pool_size is drawn from 1..MaxPoolSize
MaxTTL == 1          \* ttl is drawn from 0..MaxTTL
MaxClock == 1        \* time.time() takes the values 0..MaxClock
MaxConnects == 2     \* driver connect calls made in one behaviour
MaxDepth == 2        \* scopes one thread may nest

\* the caller threads: one caller alone, or two callers running concurrently
Threads == {1, 2}
None == 0
Kinds == {"manager", "transaction"}

VARIABLES
    pool_size,            \* self._pool_size
    connection_ttl,       \* self.connection_ttl
    nthreads,             \* how many caller threads share the pool
    now,                  \* the value time.time() returns
    conns,                \* every record _create_connection has made, by handle
    _connection_pool,     \* self._connection_pool: the idle list, of handles
    connection_pointer,   \* self.connection_pointer
    deleted,              \* __del__ has run
    pc,                   \* per thread: the statement it is at
    kind,                 \* per thread: which scope its current frame is
    connection,           \* per thread: the local `connection` of the frame
    tmp,                  \* per thread: the loaded value of connection_pointer
    exc,                  \* per thread: the exception in flight
    workexc,              \* per thread: what the unit of work raised
    before,               \* per thread: connection_pointer when the scope was
                          \* entered and, later, when the work ended
    idle_before,          \* per thread: the idle list when the scope was entered
    log,                  \* per thread: the driver and pool calls made on the
                          \* frame's connection since _get_connection returned it
    stack,                \* per thread: the enclosing frames, suspended at yield
    raised,               \* the scope the last step left, if it left one: whose, on
                          \* which connection, with which calls and which error
    scn                   \* how far the run has followed the end-to-end scenario

vars == <<pool_size, connection_ttl, nthreads, now, conns, _connection_pool,
          connection_pointer, deleted, pc, kind, connection, tmp, exc,
          workexc, before, idle_before, log, stack, raised, scn>>

config == <<pool_size, connection_ttl, nthreads>>
shared == <<conns, _connection_pool, connection_pointer>>
locals == <<kind, connection, tmp, exc, workexc, before, idle_before, log, stack>>

\* what `raised` holds after a step that left no scope
NoScope == [thread |-> 0, exc |-> "none", kind |-> "none", connection |-> None,
            work |-> "none", log |-> <<>>, before |-> 0, idle_before |-> <<>>]

\* ---- DBPool.__init__ ----------------------------------------------------
Init ==
    /\ pool_size \in 1..MaxPoolSize
    /\ connection_ttl \in 0..MaxTTL
    /\ nthreads \in {1, Cardinality(Threads)}
    /\ now = 0
    /\ conns = <<>>
    /\ _connection_pool = <<>>
    /\ connection_pointer = 0
    /\ deleted = FALSE
    /\ pc = [t \in Threads |-> "idle"]
    /\ kind = [t \in Threads |-> "none"]
    /\ connection = [t \in Threads |-> None]
    /\ tmp = [t \in Threads |-> 0]
    /\ exc = [t \in Threads |-> "none"]
    /\ workexc = [t \in Threads |-> "none"]
    /\ before = [t \in Threads |-> 0]
    /\ idle_before = [t \in Threads |-> <<>>]
    /\ log = [t \in Threads |-> <<>>]
    /\ raised = NoScope
    /\ stack = [t \in Threads |-> <<>>]
    /\ scn = IF pool_size = 2 THEN "start" ELSE "off"

Running(t) == t <= nthreads /\ ~deleted

Depth(t) == Len(stack[t]) + (IF pc[t] = "idle" THEN 0 ELSE 1)

\* scopes are nested by the single caller; concurrent callers open one at a time
DepthLimit == IF nthreads = 1 THEN MaxDepth ELSE 1

\* ---- the end-to-end scenario of the spec, followed as the pool runs --------
\* Acquire A, Acquire B, release A, Acquire C, release B and C, every release a
\* success, one operation at a time and within the TTL.  `scn` names the
\* connections handed out so far in a run that is this scenario up to now, and
\* is "off" in every other run.
ScnAfterAcquire(s) ==
    CASE s = "start" -> "A" [] s = "A" -> "AB" [] s = "B" -> "BC" [] OTHER -> "off"

ScnAfterRelease(s) ==
    CASE s = "AB" -> "B" [] s = "BC" -> "one" [] s = "one" -> "end" [] OTHER -> "off"

ScenarioStep ==
    IF scn = "off" \/ deleted' THEN "off"
    ELSE IF now' # now THEN (IF now' <= connection_ttl THEN scn ELSE "off")
    ELSE LET t == CHOOSE u \in Threads : pc'[u] # pc[u]
             quiet == \A u \in Threads \ {t} : pc[u] \in {"idle", "yield"}
         IN  IF pc[t] \in {"idle", "yield"} /\ pc'[t] = "L54"
             THEN \* an Acquire begins
                  IF scn \in {"start", "A", "B"} /\ quiet THEN scn ELSE "off"
             ELSE IF pc[t] = "L60" /\ pc'[t] \in {"yield", "L88"}
             THEN \* an Acquire returns
                  ScnAfterAcquire(scn)
             ELSE IF pc[t] = "yield"
             THEN \* a unit of work ends and its release begins; A goes first
                  IF /\ workexc'[t] = "none"
                     /\ scn \in {"AB", "BC", "one"}
                     /\ quiet
                     /\ (scn = "AB" => connection[t] = 1)
                  THEN scn ELSE "off"
             ELSE IF raised'.thread # 0
             THEN \* a scope is left
                  IF raised'.exc = "none" THEN ScnAfterRelease(scn) ELSE "off"
             ELSE scn

\* time.time() advances between any two statements
Tick ==
    /\ ~deleted
    /\ now < MaxClock
    /\ now' = now + 1
    /\ raised' = NoScope
    /\ UNCHANGED <<config, shared, deleted, pc, locals>>
    /\ scn' = ScenarioStep

\* connection_pointer and the idle list as a scope is entered or as its unit of
\* work ends; "before the call" and "before the release" name one value only
\* for a single caller, and are recorded only there
Before == IF nthreads = 1 THEN connection_pointer ELSE 0
IdleBefore == IF nthreads = 1 THEN _connection_pool ELSE <<>>

\* ---- entering a scope: `with pool.manager()` / `with pool.transaction()` -
\* line 70 / line 87 call _get_connection with connection = None (line 52)
EnterScope(t, k) ==
    /\ Running(t)
    /\ pc[t] \in {"idle", "yield"}
    /\ Depth(t) < DepthLimit
    /\ stack' = [stack EXCEPT ![t] =
                    IF pc[t] = "idle" THEN @
                    ELSE Append(@, [kind |-> kind[t], connection |-> connection[t]])]
    /\ kind' = [kind EXCEPT ![t] = k]
    /\ connection' = [connection EXCEPT ![t] = None]
    /\ exc' = [exc EXCEPT ![t] = "none"]
    /\ pc' = [pc EXCEPT ![t] = "L54"]
    /\ before' = [before EXCEPT ![t] = Before]
    /\ idle_before' = [idle_before EXCEPT ![t] = IdleBefore]
    /\ raised' = NoScope
    /\ UNCHANGED <<config, now, shared, deleted, tmp, workexc, log>>
    /\ scn' = ScenarioStep

\* leaving a scope with exception e ("none": normal exit): back to the
\* thread's top level, or into the enclosing frame's unit of work, where e is
\* the exception its `with` statement raised
LeaveScope(t, e, ev) ==
    /\ raised' = [thread |-> t, exc |-> e, kind |-> kind[t],
                  connection |-> connection[t], work |-> workexc[t],
                  log |-> log[t] \o ev, before |-> before[t],
                  idle_before |-> idle_before[t]]
    /\ log' = [log EXCEPT ![t] = <<>>]
    /\ exc' = [exc EXCEPT ![t] = IF stack[t] = <<>> THEN "none" ELSE e]
    /\ workexc' = [workexc EXCEPT ![t] = "none"]
    /\ before' = [before EXCEPT ![t] = 0]
    /\ idle_before' = [idle_before EXCEPT ![t] = <<>>]
    /\ tmp' = [tmp EXCEPT ![t] = 0]
    /\ IF stack[t] = <<>>
       THEN /\ pc' = [pc EXCEPT ![t] = "idle"]
            /\ kind' = [kind EXCEPT ![t] = "none"]
            /\ connection' = [connection EXCEPT ![t] = None]
            /\ stack' = stack
       ELSE /\ pc' = [pc EXCEPT ![t] = "yield"]
            /\ kind' = [kind EXCEPT ![t] = stack[t][Len(stack[t])].kind]
            /\ connection' = [connection EXCEPT ![t] = stack[t][Len(stack[t])].connection]
            /\ stack' = [stack EXCEPT ![t] = SubSeq(@, 1, Len(@) - 1)]

\* ---- DBPool._create_connection (lines 32-45) ----------------------------
\* the record of a new driver connection
_create_connection ==
    [creation_date |-> now, last_update |-> 0, open |-> TRUE]

\* a record that neither the idle list nor any frame refers to any more: the
\* dictionary is garbage, and only its handle's state (open or closed) remains
Unreferenced(h, o) ==
    [conns EXCEPT ![h] = [creation_date |-> 0, last_update |-> 0, open |-> o]]

\* ---- DBPool._get_connection (lines 47-62) -------------------------------
\* line 54: if self._connection_pool
_get_connection_L54(t) ==
    /\ Running(t)
    /\ pc[t] = "L54"
    /\ pc' = [pc EXCEPT ![t] = IF _connection_pool # <<>> THEN "L55" ELSE "L57"]
    /\ raised' = NoScope
    /\ UNCHANGED <<config, now, shared, deleted, locals>>
    /\ scn' = ScenarioStep

\* reading the last record without removing it
PoolAfterPeek(p) == p

\* line 55: what list.pop() leaves of the idle list
PoolAfterPop(p) == SubSeq(p, 1, Len(p) - 1)

\* line 55: connection = self._connection_pool.pop(); on an empty list pop
\* raises IndexError, which leaves _get_connection and the scope (lines 70
\* and 87 are outside the try)
_get_connection_L55(t) ==
    /\ Running(t)
    /\ pc[t] = "L55"
    /\ IF _connection_pool = <<>>
       THEN /\ LeaveScope(t, "IndexError", <<>>)
            /\ UNCHANGED <<config, now, shared, deleted>>
            /\ scn' = ScenarioStep
       ELSE LET h == _connection_pool[Len(_connection_pool)] IN
            /\ _connection_pool' = PoolAfterPop(_connection_pool)
            /\ connection' = [connection EXCEPT ![t] = h]
            /\ pc' = [pc EXCEPT ![t] = "L60"]
            /\ raised' = NoScope
            /\ UNCHANGED <<config, now, conns, connection_pointer, deleted, kind,
                           tmp, exc, workexc, before, idle_before, log, stack>>
            /\ scn' = ScenarioStep

\* the test with an off-by-one comparison
PointerAtMostSize == connection_pointer <= pool_size

\* line 57: elif self.connection_pointer < self._pool_size
PointerBelowSize == connection_pointer < pool_size

_get_connection_L57(t) ==
    /\ Running(t)
    /\ pc[t] = "L57"
    /\ pc' = [pc EXCEPT ![t] = IF PointerBelowSize THEN "L58" ELSE "L60"]
    /\ raised' = NoScope
    /\ UNCHANGED <<config, now, shared, deleted, locals>>
    /\ scn' = ScenarioStep

\* line 58 with the counter raised before the driver is called, and not
\* lowered again when the call fails
_get_connection_L58_reserve(t) ==
    /\ Running(t)
    /\ pc[t] = "L58"
    /\ \/ /\ Len(conns) < MaxConnects
          /\ conns' = Append(conns, _create_connection)
          /\ connection' = [connection EXCEPT ![t] = Len(conns) + 1]
          /\ pc' = [pc EXCEPT ![t] = "L59"]
          /\ raised' = NoScope
          /\ UNCHANGED <<config, now, _connection_pool, connection_pointer,
                         deleted, kind, tmp, exc, workexc, before, idle_before,
                         log, stack>>
          /\ scn' = ScenarioStep
       \/ /\ LeaveScope(t, "ConnectError", <<>>)
          /\ connection_pointer' = connection_pointer + 1
          /\ UNCHANGED <<config, now, conns, _connection_pool, deleted>>
          /\ scn' = ScenarioStep

\* line 58: connection = self._create_connection(); psycopg2.connect either
\* returns a new handle or raises, and the error leaves _get_connection
_get_connection_L58(t) ==
    /\ Running(t)
    /\ pc[t] = "L58"
    /\ \/ /\ Len(conns) < MaxConnects
          /\ conns' = Append(conns, _create_connection)
          /\ connection' = [connection EXCEPT ![t] = Len(conns) + 1]
          /\ pc' = [pc EXCEPT ![t] = "L59"]
          /\ raised' = NoScope
          /\ UNCHANGED <<config, now, _connection_pool, connection_pointer,
                         deleted, kind, tmp, exc, workexc, before, idle_before, log, stack>>
          /\ scn' = ScenarioStep
       \/ /\ LeaveScope(t, "ConnectError", <<>>)
          /\ UNCHANGED <<config, now, shared, deleted>>
          /\ scn' = ScenarioStep

\* line 59: self.connection_pointer += 1, the load
_get_connection_L59_load(t) ==
    /\ Running(t)
    /\ pc[t] = "L59"
    /\ tmp' = [tmp EXCEPT ![t] = connection_pointer]
    /\ pc' = [pc EXCEPT ![t] = "L59s"]
    /\ raised' = NoScope
    /\ UNCHANGED <<config, now, shared, deleted, kind, connection, exc,
                   workexc, before, idle_before, log, stack>>
    /\ scn' = ScenarioStep

\* line 59: self.connection_pointer += 1, the store
_get_connection_L59_store(t) ==
    /\ Running(t)
    /\ pc[t] = "L59s"
    /\ connection_pointer' = tmp[t] + 1
    /\ tmp' = [tmp EXCEPT ![t] = 0]
    /\ pc' = [pc EXCEPT ![t] = "L60"]
    /\ raised' = NoScope
    /\ UNCHANGED <<config, now, conns, _connection_pool, deleted, kind,
                   connection, exc, workexc, before, idle_before, log, stack>>
    /\ scn' = ScenarioStep

\* lines 60-62 and 53: time.sleep(POOL_DELAY), then the loop test; with a
\* connection the function returns to line 72 (manager) or line 88
\* (transaction), without one it goes round again
_get_connection_L60(t) ==
    /\ Running(t)
    /\ pc[t] = "L60"
    /\ pc' = [pc EXCEPT ![t] =
                IF connection[t] = None THEN "L54"
                ELSE IF kind[t] = "manager" THEN "yield" ELSE "L88"]
    /\ raised' = NoScope
    /\ UNCHANGED <<config, now, shared, deleted, locals>>
    /\ scn' = ScenarioStep

_get_connection(t) ==
    \/ _get_connection_L54(t)
    \/ _get_connection_L55(t)
    \/ _get_connection_L57(t)
    \/ _get_connection_L58(t)
    \/ _get_connection_L59_load(t)
    \/ _get_connection_L59_store(t)
    \/ _get_connection_L60(t)


\* ---- the caller's unit of work, suspended at the yield (lines 72, 91) ----
\* the errors the unit of work can raise: its own, or the one an inner scope
\* has just let through
WorkErrors(t) == {"WorkError"} \cup ({exc[t]} \ {"none"})

\* a transaction that forgets to commit
OnWorkReturnNoCommit(k) == "L77"

\* where the scope goes on when the unit of work returns: manager to the TTL
\* test of line 77, transaction to the commit of line 92
OnWorkReturn(k) == IF k = "manager" THEN "L77" ELSE "L92"

\* a manager whose handler releases the connection as after a success
OnWorkErrorRelease(k) == IF k = "manager" THEN "L77" ELSE "L94"

\* where the scope goes on when the unit of work raises: manager's handler
\* closes the connection (line 74), transaction's rolls back (line 94)
OnWorkError(k) == IF k = "manager" THEN "L109" ELSE "L94"

\* the unit of work returns
WorkReturns(t) ==
    /\ Running(t)
    /\ pc[t] = "yield"
    /\ before' = [before EXCEPT ![t] = Before]
    /\ idle_before' = [idle_before EXCEPT ![t] = <<>>]
    /\ pc' = [pc EXCEPT ![t] = OnWorkReturn(kind[t])]
    /\ exc' = [exc EXCEPT ![t] = "none"]
    /\ raised' = NoScope
    /\ UNCHANGED <<config, now, shared, deleted, kind, connection, tmp,
                   workexc, log, stack>>
    /\ scn' = ScenarioStep

\* the unit of work raises
WorkRaises(t, e) ==
    /\ Running(t)
    /\ pc[t] = "yield"
    /\ e \in WorkErrors(t)
    /\ exc' = [exc EXCEPT ![t] = e]
    /\ workexc' = [workexc EXCEPT ![t] = e]
    /\ before' = [before EXCEPT ![t] = Before]
    /\ idle_before' = [idle_before EXCEPT ![t] = <<>>]
    /\ pc' = [pc EXCEPT ![t] = OnWorkError(kind[t])]
    /\ raised' = NoScope
    /\ UNCHANGED <<config, now, shared, deleted, kind, connection, tmp,
                   log, stack>>
    /\ scn' = ScenarioStep

\* ---- DBPool.manager (lines 64-80) and DBPool.transaction (lines 82-100) --
\* lines 77 and 97: connection['creation_date'] + self.connection_ttl < time.time()
TtlTest(h) == conns[h].creation_date + connection_ttl < now

\* whether the connection is within its lifetime as line 77 or 97 runs
\* (createdAt + ttl >= now), noted in the frame's log beside the calls made
Age(h) == IF conns[h].creation_date + connection_ttl >= now THEN "fresh" ELSE "expired"

\* lines 77-80 and 97-100: the branch taken after a scope ends without error
ReleaseBranch(t) ==
    /\ Running(t)
    /\ pc[t] = "L77"
    /\ pc' = [pc EXCEPT ![t] = IF TtlTest(connection[t]) THEN "L118" ELSE "L109"]
    /\ log' = [log EXCEPT ![t] = Append(@, Age(connection[t]))]
    /\ raised' = NoScope
    /\ UNCHANGED <<config, now, shared, deleted, kind, connection, tmp, exc,
                   workexc, before, idle_before, stack>>
    /\ scn' = ScenarioStep

\* line 88: cursor = connection['connection'].cursor()
transaction_L88(t) ==
    /\ Running(t)
    /\ pc[t] = "L88"
    /\ pc' = [pc EXCEPT ![t] = "yield"]
    /\ raised' = NoScope
    /\ UNCHANGED <<config, now, shared, deleted, locals>>
    /\ scn' = ScenarioStep

\* line 92: connection['connection'].commit(); a failure is caught at line 93
transaction_L92(t) ==
    /\ Running(t)
    /\ pc[t] = "L92"
    /\ \/ /\ pc' = [pc EXCEPT ![t] = "L77"]
          /\ log' = [log EXCEPT ![t] = Append(@, "commit")]
          /\ exc' = exc
       \/ /\ pc' = [pc EXCEPT ![t] = "L94"]
          /\ log' = [log EXCEPT ![t] = Append(@, "commit_failed")]
          /\ exc' = [exc EXCEPT ![t] = "CommitError"]
    /\ raised' = NoScope
    /\ UNCHANGED <<config, now, shared, deleted, kind, connection, tmp,
                   workexc, before, idle_before, stack>>
    /\ scn' = ScenarioStep

\* lines 94-95: connection['connection'].rollback(); raise.  A rollback that
\* fails raises its own error out of the handler instead
transaction_L94(t) ==
    /\ Running(t)
    /\ pc[t] = "L94"
    /\ \/ LeaveScope(t, exc[t], <<"rollback">>)
       \/ LeaveScope(t, "RollbackError", <<"rollback">>)
    /\ conns' = Unreferenced(connection[t], TRUE)
    /\ UNCHANGED <<config, now, _connection_pool, connection_pointer, deleted>>
    /\ scn' = ScenarioStep

\* ---- DBPool._close_connection (lines 102-110) ---------------------------
\* line 109: self.connection_pointer -= 1, the load
_close_connection_L109_load(t) ==
    /\ Running(t)
    /\ pc[t] = "L109"
    /\ tmp' = [tmp EXCEPT ![t] = connection_pointer]
    /\ pc' = [pc EXCEPT ![t] = "L109s"]
    /\ raised' = NoScope
    /\ UNCHANGED <<config, now, shared, deleted, kind, connection, exc,
                   workexc, before, idle_before, log, stack>>
    /\ scn' = ScenarioStep

\* line 109: self.connection_pointer -= 1, the store
_close_connection_L109_store(t) ==
    /\ Running(t)
    /\ pc[t] = "L109s"
    /\ connection_pointer' = tmp[t] - 1
    /\ tmp' = [tmp EXCEPT ![t] = 0]
    /\ pc' = [pc EXCEPT ![t] = "L110"]
    /\ raised' = NoScope
    /\ UNCHANGED <<config, now, conns, _connection_pool, deleted, kind,
                   connection, exc, workexc, before, idle_before, log, stack>>
    /\ scn' = ScenarioStep

\* line 110: connection['connection'].close(); then back in manager or
\* transaction, where line 75 re-raises the error in flight, if any
_close_connection_L110(t) ==
    /\ Running(t)
    /\ pc[t] = "L110"
    /\ conns' = Unreferenced(connection[t], FALSE)
    /\ LeaveScope(t, exc[t], <<"close">>)
    /\ UNCHANGED <<config, now, _connection_pool, connection_pointer, deleted>>
    /\ scn' = ScenarioStep

_close_connection(t) ==
    \/ _close_connection_L109_load(t)
    \/ _close_connection_L109_store(t)
    \/ _close_connection_L110(t)

\* ---- DBPool._push_connection (lines 112-119) ----------------------------
\* a push that closes the handle it returns to the pool
PushedClosed(r) == [r EXCEPT !.last_update = now, !.open = FALSE]

\* line 118: connection['last_update'] = time.time()
Pushed(r) == [r EXCEPT !.last_update = now]

_push_connection(t) ==
    /\ Running(t)
    /\ pc[t] = "L118"
    /\ conns' = [conns EXCEPT ![connection[t]] = Pushed(@)]
    /\ _connection_pool' = Append(_connection_pool, connection[t])
    /\ LeaveScope(t, "none", <<"push">>)
    /\ UNCHANGED <<config, now, connection_pointer, deleted>>
    /\ scn' = ScenarioStep

\* ---- DBPool.__del__ (lines 28-30) ---------------------------------------
\* _close_connection on every record of the idle list, which is not emptied;
\* the pool is collected once no scope (a generator that holds self) is open
\* a teardown that closes every handle the pool has ever made
CloseEvery(cs, hs) == [h \in DOMAIN cs |-> [cs[h] EXCEPT !.open = FALSE]]

RECURSIVE CloseAll(_, _)
CloseAll(cs, hs) ==
    IF hs = <<>> THEN cs
    ELSE CloseAll([cs EXCEPT ![Head(hs)].open = FALSE], Tail(hs))

__del__ ==
    /\ ~deleted
    /\ \A t \in Threads : pc[t] = "idle"
    /\ deleted' = TRUE
    /\ connection_pointer' = connection_pointer - Len(_connection_pool)
    /\ conns' = CloseAll(conns, _connection_pool)
    /\ raised' = NoScope
    /\ UNCHANGED <<config, now, _connection_pool, pc, locals>>
    /\ scn' = ScenarioStep

\* ======================= the claims ======================================
Handles == DOMAIN conns
OpenCount == Cardinality({h \in Handles : conns[h].open})
InPool(h) == \E i \in DOMAIN _connection_pool : _connection_pool[i] = h
Has(l, ev) == \E i \in DOMAIN l : l[i] = ev
IsCall(ev) == ev \notin {"fresh", "expired"}
Calls(l) == SelectSeq(l, IsCall)

\* the thread is past _get_connection's return and has not yet pushed or
\* closed the connection it was given
Holding(t) ==
    pc[t] \in {"L88", "yield", "L92", "L94", "L77", "L118", "L109", "L109s", "L110"}

\* the frames, running or suspended, whose `connection` is h
Holders(h) ==
    {f \in Threads \X (0..MaxDepth) :
        IF f[2] = 0 THEN connection[f[1]] = h
        ELSE f[2] <= Len(stack[f[1]]) /\ stack[f[1]][f[2]].connection = h}

\* the last step ended a scope in which the unit of work ran
LeftScope == raised.thread # 0 /\ raised.connection # None
ReleasedOk == LeftScope /\ raised.exc = "none"

\* C1: with a single caller thread, nested scopes included, connection_pointer
\* is at most pool_size in every reachable state.
C1_SingleCallerCapacity == nthreads = 1 => connection_pointer <= pool_size

\* C1 witness: the single caller holds pool_size connections and its nested
\* _get_connection is going round the loop with nothing to take
C1_Witness ==
    /\ nthreads = 1
    /\ connection_pointer = pool_size
    /\ stack[1] # <<>>
    /\ pc[1] = "L60"
    /\ connection[1] = None

\* C2: with two concurrent callers, connection_pointer <= pool_size and the
\* number of open driver connections <= pool_size in every reachable state.
C2_ConcurrentCapacity ==
    nthreads >= 2 => (connection_pointer <= pool_size /\ OpenCount <= pool_size)

\* C3: a scope that ends without error while creation_date + ttl >= now pushes
\* the record onto the idle list with last_update = now, leaves the handle open
\* and leaves connection_pointer as it was.
C3_RecycleWithinTtl ==
    (ReleasedOk /\ Has(raised.log, "fresh")) =>
        /\ conns[raised.connection].open
        /\ _connection_pool # <<>>
        /\ _connection_pool[Len(_connection_pool)] = raised.connection
        /\ conns[raised.connection].last_update = now
        /\ (nthreads = 1 => connection_pointer = raised.before)

\* C4: a scope that ends without error while creation_date + ttl < now closes
\* the handle, takes one off connection_pointer and keeps the record out of the
\* idle list.
C4_DiscardPastTtl ==
    (ReleasedOk /\ Has(raised.log, "expired")) =>
        /\ ~conns[raised.connection].open
        /\ ~InPool(raised.connection)
        /\ (nthreads = 1 => connection_pointer = raised.before - 1)

\* C5: when the unit of work inside manager() raises, whatever the TTL and the
\* clock, the handle is closed, connection_pointer is one less than before the
\* failure, the record is not in the idle list and the error that leaves
\* manager() is the one the unit of work raised.
C5_ManagerFailureDiscards ==
    (LeftScope /\ raised.kind = "manager" /\ raised.work # "none") =>
        /\ ~conns[raised.connection].open
        /\ ~InPool(raised.connection)
        /\ raised.exc = raised.work
        /\ (nthreads = 1 => connection_pointer = raised.before - 1)

\* C5 witness: a manager() scope has just been left by its unit of work's error,
\* at a time when the TTL test of a successful release would have passed
C5_Witness ==
    /\ LeftScope
    /\ raised.kind = "manager"
    /\ raised.work = "WorkError"
    /\ connection_ttl = 0
    /\ now = 1

\* C6: when the unit of work inside transaction() raises, then after the scope
\* the handle is closed, connection_pointer is one less than before the failure
\* and the record is not in the idle list.
C6_TransactionFailureDiscards ==
    (LeftScope /\ raised.kind = "transaction" /\ raised.work # "none") =>
        /\ ~conns[raised.connection].open
        /\ ~InPool(raised.connection)
        /\ (nthreads = 1 => connection_pointer = raised.before - 1)

\* C7 as stated: in transaction(), a unit of work that raises is followed by a
\* rollback, by no commit, and by no close or push before the rollback; a unit
\* of work that returns is followed by a commit before any push or close, and
\* by no rollback.
C7_TransactionOrderAsStated ==
    (LeftScope /\ raised.kind = "transaction") =>
        LET c == Calls(raised.log) IN
        IF raised.work # "none"
        THEN /\ c # <<>>
             /\ c[1] = "rollback"
             /\ ~Has(c, "commit") /\ ~Has(c, "commit_failed")
        ELSE /\ c # <<>>
             /\ c[1] \in {"commit", "commit_failed"}
             /\ ~Has(c, "rollback")

\* C7 amended: in transaction(), a unit of work that raises is followed by a
\* rollback and by neither commit, close nor push before it; a unit of work that
\* returns is followed first by a commit, then by the push or the close if the
\* commit succeeded, and by a rollback only if the commit failed.
C7_TransactionOrder ==
    (LeftScope /\ raised.kind = "transaction") =>
        LET c == Calls(raised.log) IN
        IF raised.work # "none"
        THEN c = <<"rollback">>
        ELSE c \in {<<"commit", "push">>, <<"commit", "close">>,
                    <<"commit_failed", "rollback">>}

\* C7 witness: a transaction() scope whose unit of work returned has just been
\* left after its commit failed
C7_Witness ==
    /\ LeftScope
    /\ raised.kind = "transaction"
    /\ raised.work = "none"
    /\ Calls(raised.log) = <<"commit_failed", "rollback">>

\* C8: with pool_size = 1 and two concurrent callers, while one caller holds a
\* checked-out connection the other's _get_connection has not returned.
C8_BlockingAcquisition ==
    (pool_size = 1 /\ nthreads = 2) => ~(Holding(1) /\ Holding(2))

\* C9: no connection record is held by two frames at once, none is both in the
\* idle list and held, and none is in the idle list twice.
C9_ExclusiveUse ==
    \A h \in Handles :
        Cardinality(Holders(h))
          + Cardinality({i \in DOMAIN _connection_pool : _connection_pool[i] = h}) <= 1

\* C9 witness: two concurrent callers each hold a connection, one of them a
\* record that has been through the idle list
C9_Witness ==
    /\ nthreads = 2
    /\ Holding(1) /\ Holding(2)
    /\ connection[1] # connection[2]
    /\ conns[connection[1]].last_update > 0

\* C10: before teardown every record in the idle list has an open handle, and
\* so has every record a caller was given by _get_connection.
C10_OpenHandles ==
    ~deleted =>
        /\ \A i \in DOMAIN _connection_pool : conns[_connection_pool[i]].open
        /\ \A t \in Threads : connection[t] # None => conns[connection[t]].open

\* C10 witness: a caller is in its unit of work with a record it popped from
\* the idle list, while another record is idle
C10_Witness ==
    /\ ~deleted
    /\ \E t \in Threads :
        /\ pc[t] = "yield"
        /\ conns[connection[t]].last_update > 0
    /\ _connection_pool # <<>>

\* C11: when the unit of work inside transaction() raises E, the error that
\* leaves transaction() is E, also when the rollback of line 94 fails.
C11_ErrorTransparency ==
    (LeftScope /\ raised.kind = "transaction" /\ raised.work # "none") =>
        raised.exc = raised.work

\* C12: when the unit of work inside transaction() returns and the commit
\* fails, the handle is closed, connection_pointer is one less than before, the
\* record is not in the idle list and the commit error leaves the scope.
C12_CommitFailureDiscards ==
    (LeftScope /\ raised.kind = "transaction" /\ raised.work = "none"
       /\ Has(raised.log, "commit_failed")) =>
        /\ ~conns[raised.connection].open
        /\ ~InPool(raised.connection)
        /\ raised.exc = "CommitError"
        /\ (nthreads = 1 => connection_pointer = raised.before - 1)

\* C13: when the driver's connect fails inside _get_connection, the error
\* leaves the scope on that iteration, and connection_pointer and the idle list
\* are as they were before the call.
C13_CreationFailureAborts ==
    (raised.thread # 0 /\ raised.connection = None /\ raised.exc = "ConnectError") =>
        /\ pc[raised.thread] \in {"idle", "yield"}
        /\ (nthreads = 1 =>
              /\ connection_pointer = raised.before
              /\ _connection_pool = raised.idle_before)

\* C13 witness: a nested _get_connection of the single caller, which already
\* holds a connection, has just been left by a connect error
C13_Witness ==
    /\ raised.thread # 0
    /\ raised.connection = None
    /\ raised.exc = "ConnectError"
    /\ nthreads = 1
    /\ connection_pointer > 0
    /\ pc[1] = "yield"

\* C14: when the pool is destroyed, every record in the idle list has its
\* handle closed, connection_pointer is lowered once per idle record, and the
\* handles of the records that are not in the idle list are left as they were.
C14_TeardownClosesIdle ==
    [][(~deleted /\ deleted') =>
          /\ \A h \in Handles :
                IF InPool(h) THEN ~conns'[h].open ELSE conns'[h] = conns[h]
          /\ connection_pointer' = connection_pointer - Len(_connection_pool)
          /\ _connection_pool' = _connection_pool]_vars

\* C14 witness: the pool has been destroyed with a record in its idle list,
\* now closed, and with an open connection outside the idle list
C14_Witness ==
    /\ deleted
    /\ _connection_pool # <<>>
    /\ \A i \in DOMAIN _connection_pool : ~conns[_connection_pool[i]].open
    /\ \E h \in Handles : ~InPool(h) /\ conns[h].open

\* no thread is inside _get_connection or inside a release
Quiescent == ~deleted /\ \A t \in Threads : pc[t] \in {"idle", "yield"}

\* C15: with pool_size = 2 and nothing past its TTL, the run Acquire A,
\* Acquire B, release A, Acquire C, release B and C has connection_pointer = 2
\* after B, makes two driver connections in all, hands A's handle out as C, and
\* ends with 2 idle records and connection_pointer = 2.
C15_EndToEnd ==
    /\ (scn = "AB" /\ Quiescent) => connection_pointer = 2
    /\ scn \in {"AB", "B", "BC", "one", "end"} =>
          /\ Len(conns) = 2
          /\ \A t \in Threads : pc[t] # "L58"
    /\ scn = "BC" => {connection[t] : t \in Threads} = {1, 2}
    /\ scn = "end" => (Len(_connection_pool) = 2 /\ connection_pointer = 2)

\* C16: a _get_connection that has found the idle list non-empty (line 54)
\* returns the most recently pushed record: its pop takes the last record and
\* removes exactly that one, no driver connection is made, connection_pointer
\* is unchanged, and the sleep of line 60 is what follows.
C16_PrefersIdleLifo ==
    [][\A t \in Threads :
          (pc[t] = "L55" /\ pc'[t] # "L55") =>
              /\ _connection_pool # <<>>
              /\ connection'[t] = _connection_pool[Len(_connection_pool)]
              /\ _connection_pool' = SubSeq(_connection_pool, 1, Len(_connection_pool) - 1)
              /\ conns' = conns
              /\ connection_pointer' = connection_pointer
              /\ pc'[t] = "L60"]_vars

\* the frames, running or suspended, that are at their yield with a connection
HeldFrames ==
    {f \in Threads \X (0..MaxDepth) :
        IF f[2] = 0 THEN pc[f[1]] = "yield" ELSE f[2] <= Len(stack[f[1]])}

\* C17: whenever no caller is in the middle of an acquire or a release,
\* connection_pointer is the number of idle records plus the number of
\* connections held by the scopes in progress, and is the number of driver
\* connections made and not yet closed.
C17_Accounting ==
    Quiescent =>
        /\ connection_pointer = Len(_connection_pool) + Cardinality(HeldFrames)
        /\ connection_pointer = OpenCount

\* the thread is going round the loop of _get_connection with nothing in hand
Waiting(t) == pc[t] \in {"L54", "L57", "L60"} /\ connection[t] = None

\* a caller waits in _get_connection while the capacity is used up, the idle
\* list is empty and no scope anywhere holds a connection it could release
BlockedForGood ==
    /\ ~deleted
    /\ _connection_pool = <<>>
    /\ connection_pointer >= pool_size
    /\ HeldFrames = {}
    /\ \E t \in Threads : t <= nthreads /\ Waiting(t)
    /\ \A t \in Threads : pc[t] = "idle" \/ Waiting(t)

\* C18: every call of _get_connection eventually returns: the capacity is never
\* used up for good by connections that no scope in progress holds, with a
\* caller waiting for it.
C18_AcquireReturns == ~BlockedForGood

\* C19: the sleep of line 60 is only reached by an iteration that obtained no
\* connection; an iteration that popped or created one returns without it.
C19_SleepsOnlyWhenWaiting ==
    \A t \in Threads : pc[t] = "L60" => connection[t] = None

\* C20: with two concurrent callers no caller executes pop on an empty idle
\* list, and the only error that leaves _get_connection is a connect error.
C20_NoPopOnEmpty ==
    nthreads >= 2 =>
        /\ \A t \in Threads : pc[t] = "L55" => _connection_pool # <<>>
        /\ (raised.thread # 0 /\ raised.connection = None) =>
              raised.exc = "ConnectError"

Next ==
    \/ Tick
    \/ \E t \in Threads, k \in Kinds : EnterScope(t, k)
    \/ \E t \in Threads : _get_connection(t)
    \/ \E t \in Threads : WorkReturns(t)
    \/ \E t \in Threads, e \in {"WorkError", "IndexError", "ConnectError",
                                "CommitError", "RollbackError"} : WorkRaises(t, e)
    \/ \E t \in Threads : ReleaseBranch(t)
    \/ \E t \in Threads : transaction_L88(t)
    \/ \E t \in Threads : transaction_L92(t)
    \/ \E t \in Threads : transaction_L94(t)
    \/ \E t \in Threads : _close_connection(t)
    \/ \E t \in Threads : _push_connection(t)
    \/ __del__

Spec == Init /\ [][Next]_vars
====
